---- MODULE Spec2Model ----
(***************************************************************************)
(* Model of scripts/sanity_chk/harness.py: the Harness base class and its  *)
(* two variants, Console (regex matching on console output) and Test       *)
(* (ztest result lines and the two run banners).                           *)
(*                                                                         *)
(* A line of output is a sequence of tokens.  `m in line` and              *)
(* `pattern.search(line)` look for a token anywhere in the sequence,       *)
(* `result_re.match(line)` is anchored at the first token.                 *)
(***************************************************************************)
EXTENDS Integers, Sequences, FiniteSets, TLC

VARIABLES
    variant,            \* which class was instantiated: "Console" or "Test"
    pc,                 \* caller's position: "new", "configured", "handling", "error"
    state,              \* self.state
    type,               \* self.type
    regex,              \* self.regex
    matches,            \* self.matches (OrderedDict: sequence of key/value pairs)
    ordered,            \* self.ordered
    repeat,             \* self.repeat
    tests,              \* self.tests (dict)
    id,                 \* self.id
    fail_on_fault,      \* self.fail_on_fault
    fault,              \* self.fault
    capture_coverage,   \* self.capture_coverage
    next_pattern,       \* self.next_pattern
    pattern,            \* self.pattern  (Console, one_line)
    patterns,           \* self.patterns (Console, multi_line)
    line,               \* argument of the latest handle() call
    hit,                \* history: configured regex sources (Test: and the fault
                        \* marker) found in some handled line so far
    prev                \* history: self.state and self.fault on entry to that call,
                        \* and whether its line was that of the call before

vars == <<variant, pc, state, type, regex, matches, ordered, repeat, tests, id,
          fail_on_fault, fault, capture_coverage, next_pattern, pattern,
          patterns, line, hit, prev>>

(***************************************************************************)
(* Bounds of the model.                                                    *)
(***************************************************************************)
MaxRegex == 2       \* longest configured regex list
MaxMarkers == 2     \* most marker strings on one line

(***************************************************************************)
(* Literals of the program.                                                *)
(***************************************************************************)
None == "None"
GCOV_START == "GCOV_COVERAGE_DUMP_START"
GCOV_END == "GCOV_COVERAGE_DUMP_END"
FAULT == "ZEPHYR FATAL ERROR"
RUN_PASSED == "PROJECT EXECUTION SUCCESSFUL"
RUN_FAILED == "PROJECT EXECUTION FAILED"

EmptyDict == [k \in {} |-> None]

\* d[k] = v on a dict
DictPut(d, k, v) == [x \in (DOMAIN d) \cup {k} |-> IF x = k THEN v ELSE d[x]]

\* `marker in line`
Contains(marker, l) == \E i \in 1..Len(l) : l[i] = marker

\* re.compile(r).search(line) for a literal regex source r
Search(r, l) == \E i \in 1..Len(l) : l[i] = r

\* result_re.match(line): "(PASS|FAIL|SKIP) - (test_)?(.*)", anchored at the
\* start of the line; the optional group is greedy, group 3 is the rest.
result_re_match(l) ==
    IF Len(l) >= 2 /\ l[1] \in {"PASS", "FAIL", "SKIP"} /\ l[2] = " - "
    THEN LET rest == SubSeq(l, 3, Len(l)) IN
         [matched |-> TRUE,
          group1  |-> l[1],
          group3  |-> IF Len(rest) >= 1 /\ rest[1] = "test_" THEN Tail(rest) ELSE rest]
    ELSE [matched |-> FALSE, group1 |-> None, group3 |-> <<>>]

(***************************************************************************)
(* Inputs: test instances (id, tags, harness_config) and output lines.     *)
(***************************************************************************)
PatternSrc == {"A", "B"}

RegexLists == UNION {[1..n -> PatternSrc] : n \in 0..MaxRegex}

\* harness_config dicts handed to a Console harness; a key may be missing
ConsoleConfigs ==
    {EmptyDict}
    \cup {[type |-> t, regex |-> r] : t \in {"one_line", "multi_line"}, r \in RegexLists}
    \cup {[type |-> "multi_line", regex |-> r, ordered |-> o] :
            r \in RegexLists, o \in BOOLEAN}
    \cup {[type |-> "multi_line", regex |-> <<"A", "B">>, ordered |-> FALSE, repeat |-> 2],
          [regex |-> <<"A">>], [type |-> "one_line"],
          [type |-> "one_line", regex |-> <<FAULT>>],
          [type |-> "multi_line", regex |-> <<"A", FAULT>>, ordered |-> FALSE]}

\* harness_config dicts handed to a Test harness
TestConfigs ==
    {EmptyDict, [type |-> "one_line", regex |-> <<"A">>, repeat |-> 2, ordered |-> FALSE]}

Instances(v) ==
    {[id |-> "suite1", tags |-> tg, harness_config |-> c] :
        tg \in {{}, {"ignore_faults"}},
        c \in IF v = "Console" THEN ConsoleConfigs ELSE TestConfigs}

Markers == <<FAULT, RUN_PASSED, RUN_FAILED, GCOV_START, GCOV_END>>

\* the markers Console.handle looks for
ConsoleMarkers == <<FAULT, GCOV_START, GCOV_END>>

\* lines made of up to MaxMarkers of the marker strings ms
MarkerLinesOf(ms) ==
    {[i \in 1..Len(s) |-> ms[s[i]]] :
        s \in {t \in UNION {[1..n -> 1..Len(ms)] : n \in 1..MaxMarkers} :
                  \A i \in 1..(Len(t) - 1) : t[i] < t[i + 1]}}

MarkerLines == MarkerLinesOf(Markers)

\* lines for the result-line grammar, and near misses of it
ResultLines ==
    {<<lit, " - ">> \o pre \o <<"foo">> :
        lit \in {"PASS", "FAIL", "SKIP"}, pre \in {<<>>, <<"test_">>}}
    \cup {<<"PASS", " - ", "test_", "test_", "foo">>, <<"FAIL", " - ", RUN_PASSED>>,
          <<"boot", "PASS", " - ", "foo">>, <<"PASS", "foo">>, <<"WARN", " - ", "foo">>}

\* lines for the configured patterns
PatternLines ==
    {<<"A">>, <<"B">>, <<"A", "B">>, <<"x", "A">>, <<"A", FAULT>>, <<"B", GCOV_START>>}

\* the output a harness of variant v is fed; for Console, which never looks
\* for the banners, they come only alone on a line
Lines(v) ==
    {<<>>, <<"noise">>}
    \cup (IF v = "Console"
          THEN MarkerLinesOf(ConsoleMarkers) \cup {<<RUN_PASSED>>, <<RUN_FAILED>>}
               \cup PatternLines \cup {<<"PASS", " - ", "foo">>}
          ELSE MarkerLines \cup ResultLines \cup {<<"A">>})

(***************************************************************************)
(* Harness.__init__                                                        *)
(***************************************************************************)
Init ==
    /\ variant \in {"Console", "Test"}
    /\ pc = "new"
    /\ state = None
    /\ type = None
    /\ regex = <<>>
    /\ matches = <<>>
    /\ ordered = TRUE
    /\ repeat = 1
    /\ tests = EmptyDict
    /\ id = None
    /\ fail_on_fault = TRUE
    /\ fault = FALSE
    /\ capture_coverage = FALSE
    /\ next_pattern = 0
    /\ pattern = None
    /\ patterns = <<>>
    /\ line = <<>>
    /\ hit = {}
    /\ prev = [state |-> None, fault |-> FALSE, replay |-> FALSE]

(***************************************************************************)
(* Harness.configure / Console.configure                                   *)
(***************************************************************************)
\* config.get(key, default)
Get(config, key, default) == IF key \in DOMAIN config THEN config[key] ELSE default

\* `if config:` -- None and the empty dict are both false
Truthy(config) == DOMAIN config # {}

Configure ==
    /\ pc = "new"
    /\ \E instance \in Instances(variant) :
         LET config == instance.harness_config
             type1  == IF Truthy(config) THEN Get(config, "type", None) ELSE type
             regex1 == IF Truthy(config) THEN Get(config, "regex", <<>>) ELSE regex
         IN
         /\ id' = instance.id
         /\ fail_on_fault' = IF "ignore_faults" \in instance.tags THEN FALSE
                             ELSE fail_on_fault
         /\ type' = type1
         /\ regex' = regex1
         /\ repeat' = IF Truthy(config) THEN Get(config, "repeat", 1) ELSE repeat
         /\ ordered' = IF Truthy(config) THEN Get(config, "ordered", TRUE) ELSE ordered
         /\ IF variant = "Console" /\ type1 = "one_line"
            THEN IF Len(regex1) = 0
                 THEN pc' = "error" /\ UNCHANGED <<pattern, patterns>>  \* IndexError
                 ELSE pc' = "configured" /\ pattern' = regex1[1] /\ UNCHANGED patterns
            ELSE IF variant = "Console" /\ type1 = "multi_line"
                 THEN pc' = "configured" /\ patterns' = regex1 /\ UNCHANGED pattern
                 ELSE pc' = "configured" /\ UNCHANGED <<pattern, patterns>>
    /\ UNCHANGED <<variant, state, matches, tests, fault, capture_coverage,
                   next_pattern, line, hit, prev>>

(***************************************************************************)
(* Steps shared by Console.handle and Test.handle                          *)
(***************************************************************************)
\* FaultScan that does not look at the fault policy
FaultScanAlways(fof, f, l) == IF Contains(FAULT, l) THEN TRUE ELSE f

\* if self.fail_on_fault: if self.FAULT in line: self.fault = True
FaultScan(fof, f, l) == IF fof /\ Contains(FAULT, l) THEN TRUE ELSE f

\* CoverageScan with the end marker checked first
CoverageScanEndFirst(c, l) ==
    IF Contains(GCOV_END, l) THEN FALSE
    ELSE IF Contains(GCOV_START, l) THEN TRUE
    ELSE c

\* CoverageScan that clears the flag on every line without the start marker
CoverageScanElse(c, l) == IF Contains(GCOV_START, l) THEN TRUE ELSE FALSE

\* if GCOV_START in line: True  elif GCOV_END in line: False
CoverageScan(c, l) ==
    IF Contains(GCOV_START, l) THEN TRUE
    ELSE IF Contains(GCOV_END, l) THEN FALSE
    ELSE c

\* history of the run: the configured regex sources (and, for Test, the fault
\* marker) that some handled line contained
Hit(h, l) ==
    h \cup {r \in {regex[j] : j \in 1..Len(regex)}
                    \cup (IF variant = "Test" THEN {FAULT} ELSE {}) :
               \E i \in 1..Len(l) : l[i] = r}

(***************************************************************************)
(* Console.handle                                                          *)
(***************************************************************************)
\* OneLine that clears the state on a line without the pattern
OneLineReset(st, pat, l) == IF Search(pat, l) THEN "passed" ELSE None

\* OneLine with pattern.match (anchored at the start) instead of pattern.search
OneLineMatch(st, pat, l) == IF Len(l) >= 1 /\ l[1] = pat THEN "passed" ELSE st

\* OneLine in which a line with the fault marker fails the run
OneLineFault(st, pat, l) ==
    IF Contains(FAULT, l) THEN "failed"
    ELSE IF Search(pat, l) THEN "passed" ELSE st

\* one_line branch
OneLine(st, pat, l) == IF Search(pat, l) THEN "passed" ELSE st

\* Ordered that lets any pattern not yet passed advance the cursor
OrderedAny(st, np, pats, l) ==
    IF \E j \in (np + 1)..Len(pats) : Search(pats[j], l)
    THEN [next_pattern |-> np + 1,
          state |-> IF np + 1 >= Len(pats) THEN "passed" ELSE st]
    ELSE [next_pattern |-> np, state |-> st]

\* multi_line, ordered branch: the new cursor and state
Ordered(st, np, pats, l) ==
    IF np < Len(pats) /\ Search(pats[np + 1], l)
    THEN [next_pattern |-> np + 1,
          state |-> IF np + 1 >= Len(pats) THEN "passed" ELSE st]
    ELSE [next_pattern |-> np, state |-> st]

HasKey(m, r) == \E j \in 1..Len(m) : m[j].key = r

\* UnorderedLoop in which a later matching line replaces the stored one
RECURSIVE UnorderedLoopLastWins(_, _, _, _, _)
UnorderedLoopLastWins(i, m, pats, rx, l) ==
    IF i > Len(pats) THEN m
    ELSE UnorderedLoopLastWins(
             i + 1,
             IF ~Search(pats[i], l) THEN m
             ELSE IF HasKey(m, rx[i])
             THEN [j \in 1..Len(m) |->
                     IF m[j].key = rx[i] THEN [key |-> rx[i], value |-> l] ELSE m[j]]
             ELSE Append(m, [key |-> rx[i], value |-> l]),
             pats, rx, l)

\* UnorderedLoop without the `not r in self.matches` test
RECURSIVE UnorderedLoopDup(_, _, _, _, _)
UnorderedLoopDup(i, m, pats, rx, l) ==
    IF i > Len(pats) THEN m
    ELSE UnorderedLoopDup(i + 1,
                          IF Search(pats[i], l)
                          THEN Append(m, [key |-> rx[i], value |-> l]) ELSE m,
                          pats, rx, l)

\* multi_line, unordered branch: the loop over enumerate(self.patterns)
RECURSIVE UnorderedLoop(_, _, _, _, _)
UnorderedLoop(i, m, pats, rx, l) ==
    IF i > Len(pats) THEN m
    ELSE LET r == rx[i] IN
         UnorderedLoop(i + 1,
                       IF Search(pats[i], l) /\ ~HasKey(m, r)
                       THEN Append(m, [key |-> r, value |-> l]) ELSE m,
                       pats, rx, l)

\* UnorderedState that needs more matches than patterns
UnorderedStateGt(st, m, rx) == IF Len(m) > Len(rx) THEN "passed" ELSE st

\* UnorderedState that never passes an empty pattern list
UnorderedStateNonEmpty(st, m, rx) ==
    IF Len(rx) > 0 /\ Len(m) = Len(rx) THEN "passed" ELSE st

\* if len(self.matches) == len(self.regex): self.state = "passed"
UnorderedState(st, m, rx) == IF Len(m) = Len(rx) THEN "passed" ELSE st

\* ConsoleTests that writes the entry only once the verdict is passed
ConsoleTestsOnPass(t, i, st) == IF st = "passed" THEN DictPut(t, <<i>>, "PASS") ELSE t

\* the final write of self.tests[self.id]
ConsoleTests(t, i, st) == DictPut(t, <<i>>, IF st = "passed" THEN "PASS" ELSE "FAIL")

ConsoleHandle ==
    /\ variant = "Console"
    /\ pc \in {"configured", "handling"}
    /\ \E l \in Lines(variant) :
         LET o  == Ordered(state, next_pattern, patterns, l)
             m1 == UnorderedLoop(1, matches, patterns, regex, l)
             st1 == IF type = "one_line" THEN OneLine(state, pattern, l)
                    ELSE IF type = "multi_line" /\ ordered THEN o.state
                    ELSE IF type = "multi_line" /\ ~ordered
                         THEN UnorderedState(state, m1, regex)
                    ELSE state
         IN
         /\ line' = l
         /\ state' = st1
         /\ next_pattern' = IF type = "multi_line" /\ ordered THEN o.next_pattern
                            ELSE next_pattern
         /\ matches' = IF type = "multi_line" /\ ~ordered THEN m1 ELSE matches
         /\ fault' = FaultScan(fail_on_fault, fault, l)
         /\ capture_coverage' = CoverageScan(capture_coverage, l)
         /\ tests' = ConsoleTests(tests, id, st1)
         /\ hit' = Hit(hit, l)
         /\ prev' = [state |-> state, fault |-> fault,
                     replay |-> (pc = "handling" /\ l = line)]
    /\ pc' = "handling"
    /\ UNCHANGED <<variant, type, regex, ordered, repeat, id, fail_on_fault,
                   pattern, patterns>>

(***************************************************************************)
(* Test.handle                                                             *)
(***************************************************************************)
\* "{}.{}".format(self.id, match.group(3))
QualifiedName(i, g3) == <<i, ".">> \o g3

\* TestResults that keeps the test_ prefix in the name
TestResultsKeepPrefix(t, i, l) ==
    IF Len(l) >= 2 /\ l[1] \in {"PASS", "FAIL", "SKIP"} /\ l[2] = " - "
    THEN DictPut(t, <<i, ".">> \o SubSeq(l, 3, Len(l)), l[1])
    ELSE t

\* match = result_re.match(line); if match: self.tests[name] = match.group(1)
TestResults(t, i, l) ==
    LET match == result_re_match(l) IN
    IF match.matched THEN DictPut(t, QualifiedName(i, match.group3), match.group1)
    ELSE t

\* Banners with the fault marker itself failing the run
BannersFaultFails(st, f, l) ==
    LET st1 == IF Contains(RUN_PASSED, l)
               THEN (IF f THEN "failed" ELSE "passed")
               ELSE st
    IN IF Contains(RUN_FAILED, l) \/ Contains(FAULT, l) THEN "failed" ELSE st1

\* Banners with the success banner ignoring the fault flag
BannersNoVeto(st, f, l) ==
    LET st1 == IF Contains(RUN_PASSED, l) THEN "passed" ELSE st
    IN IF Contains(RUN_FAILED, l) THEN "failed" ELSE st1

\* Banners with the failed banner checked only when the success banner is absent
BannersElif(st, f, l) ==
    IF Contains(RUN_PASSED, l) THEN (IF f THEN "failed" ELSE "passed")
    ELSE IF Contains(RUN_FAILED, l) THEN "failed"
    ELSE st

\* Banners run after the fault scan of the same line
BannersFaultFirst(st, f, l) ==
    LET f1  == IF fail_on_fault /\ Contains(FAULT, l) THEN TRUE ELSE f
        st1 == IF Contains(RUN_PASSED, l)
               THEN (IF f1 THEN "failed" ELSE "passed")
               ELSE st
    IN IF Contains(RUN_FAILED, l) THEN "failed" ELSE st1

\* Banners in which a FAIL result line fails the run
BannersFailLine(st, f, l) ==
    LET st1 == IF Contains(RUN_PASSED, l)
               THEN (IF f THEN "failed" ELSE "passed")
               ELSE st
    IN IF Contains(RUN_FAILED, l) \/ (Len(l) >= 2 /\ l[1] = "FAIL" /\ l[2] = " - ")
       THEN "failed" ELSE st1

\* the two banner checks, in program order
Banners(st, f, l) ==
    LET st1 == IF Contains(RUN_PASSED, l)
               THEN (IF f THEN "failed" ELSE "passed")
               ELSE st
    IN IF Contains(RUN_FAILED, l) THEN "failed" ELSE st1

TestHandle ==
    /\ variant = "Test"
    /\ pc \in {"configured", "handling"}
    /\ \E l \in Lines(variant) :
         /\ line' = l
         /\ tests' = TestResults(tests, id, l)
         /\ state' = Banners(state, fault, l)
         /\ fault' = FaultScan(fail_on_fault, fault, l)
         /\ capture_coverage' = CoverageScan(capture_coverage, l)
         /\ hit' = Hit(hit, l)
         /\ prev' = [state |-> state, fault |-> fault,
                     replay |-> (pc = "handling" /\ l = line)]
    /\ pc' = "handling"
    /\ UNCHANGED <<variant, type, regex, matches, ordered, repeat, id,
                   fail_on_fault, next_pattern, pattern, patterns>>

Next == Configure \/ ConsoleHandle \/ TestHandle

Spec == Init /\ [][Next]_vars

(***************************************************************************)
(* Properties                                                              *)
(***************************************************************************)
\* a handle() call has returned
Handled == pc = "handling"

\* the latest call was Test.handle / Console.handle
TestHandled == variant = "Test" /\ Handled
ConsoleHandled == variant = "Console" /\ Handled

\* the veto rule: Test.handle saw the success banner with self.fault already set
Veto == variant = "Test" /\ Contains(RUN_PASSED, line) /\ prev.fault

\* C1 (as stated): in both variants a handle call turns a passed verdict into
\* failed only by the veto rule -- the success banner handled by Test while
\* the fault flag is already set.
C1_OnlyVetoDowngrades ==
    (Handled /\ prev.state = "passed" /\ state = "failed") => Veto

\* C1 (amended): a handle call turns a passed verdict into failed only by the
\* veto rule or by a line with the failed banner, both in the Test variant.
C1_DowngradeOnlyByVetoOrFailedBanner ==
    (Handled /\ prev.state = "passed" /\ state = "failed")
        => (Veto \/ (variant = "Test" /\ Contains(RUN_FAILED, line)))

\* C1 witness: the veto turned passed into failed on a line without the failed banner
C1_Witness ==
    /\ TestHandled /\ prev.state = "passed" /\ state = "failed"
    /\ prev.fault /\ Contains(RUN_PASSED, line) /\ ~Contains(RUN_FAILED, line)

\* C2: in both variants, once the verdict is passed or failed no handle call
\* makes it None again.
C2_NeverBackToRunning ==
    (Handled /\ prev.state # None) => state # None

\* C2 witness: a decided verdict went through a call that matched nothing
C2_Witness ==
    /\ Handled /\ prev.state = "passed" /\ state = "passed" /\ line = <<"noise">>

\* C3 (as stated): in the Test variant a failed verdict stays failed through
\* every later handle call.
C3_FailedStaysFailed ==
    (TestHandled /\ prev.state = "failed") => state = "failed"

\* C4: in the Test variant, after a line with the success banner and without
\* the failed banner the verdict is failed when the fault flag was set before
\* the call and passed when it was not.
C4_SuccessBannerVerdict ==
    (TestHandled /\ Contains(RUN_PASSED, line) /\ ~Contains(RUN_FAILED, line))
        => state = (IF prev.fault THEN "failed" ELSE "passed")

\* C4 witness: the fault marker came on an earlier line and the banner was vetoed
C4_Witness ==
    /\ TestHandled /\ line = <<RUN_PASSED>> /\ prev.fault /\ fail_on_fault
    /\ state = "failed" /\ prev.state = None

\* C5: in the Test variant, after any line with the failed banner the verdict
\* is failed, whatever the verdict and fault flag before and whether or not
\* the line also has the success banner.
C5_FailedBannerWins ==
    (TestHandled /\ Contains(RUN_FAILED, line)) => state = "failed"

\* C5 witness: both banners on one line, no fault, after an earlier pass
C5_Witness ==
    /\ TestHandled /\ line = <<RUN_PASSED, RUN_FAILED>> /\ ~prev.fault
    /\ prev.state = "passed" /\ state = "failed"

\* the step of a handle() call of variant v
HandleStep(v) == variant = v /\ pc \in {"configured", "handling"} /\ pc' = "handling"

\* C6: in Console one_line mode the verdict is None until the first line that
\* contains the configured pattern has been handled and passed from then on.
C6_OneLinePassedIffSeen ==
    (variant = "Console" /\ type = "one_line" /\ pc \in {"configured", "handling"})
        => /\ state \in {None, "passed"}
           /\ state = "passed" <=> regex[1] \in hit

\* C6 witness: the first matching line, with the pattern not at its start
C6_Witness ==
    /\ ConsoleHandled /\ type = "one_line" /\ regex = <<"A", "B">>
    /\ line = <<"x", "A">> /\ prev.state = None /\ state = "passed"

\* C7: in Console ordered multi_line mode a handle call advances the cursor by
\* one exactly when the line contains the pattern at the cursor; any other line
\* (one that has only a later pattern included) leaves cursor and verdict as
\* they were; and the verdict turns passed exactly in the call that brings the
\* cursor to the number of patterns.
C7_OrderedCursor ==
    [][(HandleStep("Console") /\ type = "multi_line" /\ ordered) =>
         LET inTurn == /\ next_pattern < Len(regex)
                       /\ \E i \in 1..Len(line') : line'[i] = regex[next_pattern + 1]
         IN /\ next_pattern' = (IF inTurn THEN next_pattern + 1 ELSE next_pattern)
            /\ ~inTurn => state' = state
            /\ (state # "passed" /\ state' = "passed")
                   <=> (inTurn /\ next_pattern' = Len(regex))]_vars

\* C7 witness: patterns [A, B], a line with B while the cursor is still on A
C7_Witness ==
    /\ ConsoleHandled /\ type = "multi_line" /\ ordered /\ regex = <<"A", "B">>
    /\ line = <<"B">> /\ next_pattern = 0 /\ state = None

\* C8 (as stated): in Console unordered multi_line mode, after each handle call
\* the verdict is passed if and only if every entry of the pattern list
\* (entries need not be distinct) has been found in some line handled so far.
C8_UnorderedPassedIffAllSeen ==
    (ConsoleHandled /\ type = "multi_line" /\ ~ordered)
        => (state = "passed" <=> \A i \in 1..Len(regex) : regex[i] \in hit)

\* C9: after every Console.handle call the results table has exactly one
\* entry, under the instance id, "PASS" if the verdict after the call is
\* passed and "FAIL" otherwise.
C9_ConsoleTableEntry ==
    ConsoleHandled
        => /\ DOMAIN tests = {<<id>>}
           /\ tests[<<id>>] = (IF state = "passed" THEN "PASS" ELSE "FAIL")

\* C9 witness: the entry turned to PASS in the call that passed the run
C9_Witness ==
    /\ ConsoleHandled /\ prev.state = None /\ state = "passed"
    /\ tests = (<<"suite1">> :> "PASS")

\* the result-line grammar "<PASS|FAIL|SKIP> - [test_]<name>"
IsResultLine(l) == Len(l) >= 2 /\ l[1] \in {"PASS", "FAIL", "SKIP"} /\ l[2] = " - "
SubtestName(l) ==
    IF Len(l) >= 3 /\ l[3] = "test_" THEN SubSeq(l, 4, Len(l)) ELSE SubSeq(l, 3, Len(l))

\* C10: Test.handle on a result line sets results[id.name] to the result
\* literal, name being the text after the optional test_ prefix, overwrites an
\* earlier entry under that key and leaves every other entry as it was; on any
\* other line the table is unchanged.
C10_ResultLineWrite ==
    [][HandleStep("Test") =>
         IF IsResultLine(line')
         THEN LET key == <<id, ".">> \o SubtestName(line') IN
              /\ DOMAIN tests' = DOMAIN tests \cup {key}
              /\ tests'[key] = line'[1]
              /\ \A k \in DOMAIN tests \ {key} : tests'[k] = tests[k]
         ELSE tests' = tests]_vars

\* C10 witness: "PASS - test_foo" wrote suite1.foo next to another entry
C10_Witness ==
    /\ TestHandled /\ line = <<"PASS", " - ", "test_", "foo">>
    /\ <<"suite1", ".", "foo">> \in DOMAIN tests
    /\ tests[<<"suite1", ".", "foo">>] = "PASS"
    /\ <<"suite1", ".", "test_", "foo">> \in DOMAIN tests

\* token t occurs in line l
Occurs(t, l) == \E i \in 1..Len(l) : l[i] = t

\* C11: in both variants, with the "ignore_faults" tag (fail_on_fault false)
\* the fault flag is false in every reachable state, also after lines with the
\* fault marker, so that a success banner (on a line without the failed
\* banner) handled by Test after such a line gives passed.
C11_IgnoreFaults ==
    ~fail_on_fault
        => /\ ~fault
           /\ (TestHandled /\ Occurs(RUN_PASSED, line) /\ ~Occurs(RUN_FAILED, line))
                  => state = "passed"

\* C11 witness: the fault marker on an earlier line, then the success banner
C11_Witness ==
    /\ TestHandled /\ ~fail_on_fault /\ FAULT \in hit /\ line = <<RUN_PASSED>>
    /\ ~fault /\ state = "passed"

\* a line with its fault markers taken out
RECURSIVE WithoutFault(_)
WithoutFault(l) ==
    IF l = <<>> THEN <<>>
    ELSE IF Head(l) = FAULT THEN WithoutFault(Tail(l))
    ELSE <<Head(l)>> \o WithoutFault(Tail(l))

\* the keys of self.matches, in order
Keys(m) == [j \in 1..Len(m) |-> m[j].key]

\* what Console.handle makes of verdict, cursor and matched keys on line l
ConsoleVerdictOn(l) ==
    IF type = "one_line"
    THEN [state |-> OneLine(state, pattern, l), next_pattern |-> next_pattern,
          keys |-> Keys(matches)]
    ELSE IF type = "multi_line" /\ ordered
    THEN [state |-> Ordered(state, next_pattern, patterns, l).state,
          next_pattern |-> Ordered(state, next_pattern, patterns, l).next_pattern,
          keys |-> Keys(matches)]
    ELSE IF type = "multi_line"
    THEN [state |-> UnorderedState(state, UnorderedLoop(1, matches, patterns, regex, l),
                                   regex),
          next_pattern |-> next_pattern,
          keys |-> Keys(UnorderedLoop(1, matches, patterns, regex, l))]
    ELSE [state |-> state, next_pattern |-> next_pattern, keys |-> Keys(matches)]

\* what C12 says of a Console.handle step on a line with the fault marker:
\* verdict, cursor, matched keys and table value are those of the same call on
\* the line without its fault markers, and the flag is set when the policy is
\* active
FaultOnlySetsFlag ==
    Occurs(FAULT, line') =>
        LET clean == ConsoleVerdictOn(WithoutFault(line')) IN
        /\ state' = clean.state
        /\ next_pattern' = clean.next_pattern
        /\ Keys(matches') = clean.keys
        /\ tests'[<<id>>] = (IF clean.state = "passed" THEN "PASS" ELSE "FAIL")
        /\ fail_on_fault => fault'

C13_CoverageFlag ==
    [][(HandleStep("Console") \/ HandleStep("Test")) =>
         capture_coverage' = (IF Occurs(GCOV_START, line') THEN TRUE
                              ELSE IF Occurs(GCOV_END, line') THEN FALSE
                              ELSE capture_coverage)]_vars

\* C13 witness: a line with both markers left the flag set
C13_Witness ==
    /\ Handled /\ line = <<GCOV_START, GCOV_END>> /\ capture_coverage

\* the latest call handled the same line as the call before it
Replayed == Handled /\ prev.replay

\* C14 (as stated): in every variant and configuration, from every reachable
\* state, handling a line twice in succession gives the verdict that handling
\* it once gives.
C14_TwiceSameVerdict ==
    Replayed => state = prev.state

\* ordered multi_line mode: the replayed line also has the pattern the cursor
\* moved to, the last one, and completes the list
ReplayCompletesOrdered ==
    /\ variant = "Console" /\ type = "multi_line" /\ ordered
    /\ next_pattern = Len(regex) /\ next_pattern > 0
    /\ Occurs(regex[next_pattern], line)
    /\ prev.state = None /\ state = "passed"

\* Test: the line has the fault marker and the success banner, not the failed
\* banner; the first call passed and set the fault flag, the second is vetoed
ReplayVetoed ==
    /\ variant = "Test" /\ fail_on_fault /\ prev.fault
    /\ Occurs(FAULT, line) /\ Occurs(RUN_PASSED, line) /\ ~Occurs(RUN_FAILED, line)
    /\ prev.state = "passed" /\ state = "failed"

\* C14 (amended): handling a line twice in succession gives the verdict of
\* handling it once, except when in Console ordered multi_line mode the second
\* call completes the pattern list, and except when Test is given a line with
\* the fault marker and the success banner, whose second call is vetoed.
C14_TwiceSameVerdictExcept ==
    Replayed => (state = prev.state \/ ReplayCompletesOrdered \/ ReplayVetoed)

\* C14 witness: unordered mode, a line with one of two patterns handled twice
C14_Witness ==
    /\ Replayed /\ variant = "Console" /\ type = "multi_line" /\ ~ordered
    /\ regex = <<"A", "B">> /\ line = <<"A">> /\ Len(matches) = 1 /\ state = None

\* the key regex source r is recorded in self.matches m
Recorded(m, r) == \E j \in 1..Len(m) : m[j].key = r

\* C15: in Console unordered multi_line mode, a handle call on a line that
\* has some configured pattern, and only patterns already recorded as matched,
\* leaves self.matches as it was (its size, and for every key the line stored
\* first) and leaves the verdict as it was.
C15_RematchChangesNothing ==
    [][(/\ HandleStep("Console") /\ type = "multi_line" /\ ~ordered
        /\ \E i \in 1..Len(regex) : Occurs(regex[i], line')
        /\ \A i \in 1..Len(regex) : Occurs(regex[i], line') => Recorded(matches, regex[i]))
         => (matches' = matches /\ state' = state)]_vars

\* C15 witness: pattern A matched again by another line, the first line kept
C15_Witness ==
    /\ ConsoleHandled /\ type = "multi_line" /\ ~ordered /\ regex = <<"A", "B">>
    /\ line = <<"x", "A">> /\ matches = <<[key |-> "A", value |-> <<"A">>]>>
    /\ state = None

\* C16: in every reachable state of a Console harness in multi_line mode the
\* cursor is between 0 and the number of patterns and self.matches has at most
\* that many entries; and in unordered mode, after a handle call that leaves
\* as many matches as patterns the verdict is passed, and a passed verdict
\* stays passed.
C16_CursorAndMatchBounds ==
    (variant = "Console" /\ type = "multi_line")
        => /\ 0 <= next_pattern /\ next_pattern <= Len(patterns)
           /\ Len(matches) <= Len(patterns)
           /\ (Handled /\ ~ordered /\ Len(matches) = Len(patterns)) => state = "passed"
           /\ (Handled /\ ~ordered /\ prev.state = "passed") => state = "passed"

\* C16 witness: both patterns matched, the verdict passed and stayed passed
C16_Witness ==
    /\ ConsoleHandled /\ type = "multi_line" /\ ~ordered /\ Len(patterns) = 2
    /\ Len(matches) = 2 /\ prev.state = "passed" /\ state = "passed"

\* a line that has no marker, no banner, no configured pattern, and is no
\* result line
MatchesNothing(l) ==
    /\ \A i \in 1..Len(l) :
         /\ l[i] \notin {FAULT, GCOV_START, GCOV_END, RUN_PASSED, RUN_FAILED}
         /\ \A j \in 1..Len(regex) : l[i] # regex[j]
    /\ ~IsResultLine(l)

\* C17 (as stated): in both variants and from every reachable state, handling
\* a line that matches nothing leaves verdict, fault flag, coverage flag,
\* cursor, matches and the results table unchanged.
C17_NothingLineNoOp ==
    [][((HandleStep("Console") \/ HandleStep("Test")) /\ MatchesNothing(line'))
         => UNCHANGED <<state, fault, capture_coverage, next_pattern, matches,
                        tests>>]_vars

\* C17 (amended): such a line leaves fault flag, coverage flag, cursor and
\* matches unchanged; the verdict unchanged except that Console unordered
\* multi_line mode with an empty pattern list passes; the table unchanged in
\* Test, and in Console holding the one entry written from the verdict, which
\* changes the table only in the first handle call.
C17_NothingLineEffect ==
    [][((HandleStep("Console") \/ HandleStep("Test")) /\ MatchesNothing(line'))
         => /\ UNCHANGED <<fault, capture_coverage, next_pattern, matches>>
            /\ state' = (IF /\ variant = "Console" /\ type = "multi_line"
                            /\ ~ordered /\ regex = <<>>
                         THEN "passed" ELSE state)
            /\ IF variant = "Test" THEN tests' = tests
               ELSE tests' = (<<id>> :> (IF state' = "passed" THEN "PASS" ELSE "FAIL"))
            /\ pc = "handling" => tests' = tests]_vars

\* C17 witness: Test kept flags, verdict and table through a near miss of the
\* result-line grammar
C17_Witness ==
    /\ TestHandled /\ line = <<"boot", "PASS", " - ", "foo">>
    /\ capture_coverage /\ fault /\ state = "failed" /\ prev.state = "failed"
    /\ DOMAIN tests = {<<"suite1", ".", "foo">>}

\* C18: in Test with the fault policy active, one line with the fault marker
\* and the success banner and without the failed banner, handled while the
\* fault flag is false, leaves the verdict passed and the fault flag set.
C18_FaultScanAfterBanners ==
    (/\ TestHandled /\ fail_on_fault /\ ~prev.fault
     /\ Occurs(FAULT, line) /\ Occurs(RUN_PASSED, line) /\ ~Occurs(RUN_FAILED, line))
        => (state = "passed" /\ fault)

\* C18 witness: such a line as the call that passed the run
C18_Witness ==
    /\ TestHandled /\ line = <<FAULT, RUN_PASSED>> /\ ~prev.fault /\ fault
    /\ prev.state = None /\ state = "passed"

\* C19: in Test the verdict after a call is decided by the banners on the
\* line, the fault flag and the verdict before it, and the fault flag by the
\* fault marker; result lines have no part in either.
C19_VerdictFromBannersOnly ==
    TestHandled
        => /\ state = (IF Occurs(RUN_FAILED, line) THEN "failed"
                       ELSE IF Occurs(RUN_PASSED, line)
                            THEN (IF prev.fault THEN "failed" ELSE "passed")
                       ELSE prev.state)
           /\ fault = (prev.fault \/ (fail_on_fault /\ Occurs(FAULT, line)))

\* C19 witness: a FAIL result for foo in the table and the run passed
C19_Witness ==
    /\ TestHandled /\ line = <<RUN_PASSED>> /\ ~fault /\ state = "passed"
    /\ <<"suite1", ".", "foo">> \in DOMAIN tests
    /\ tests[<<"suite1", ".", "foo">>] = "FAIL"

\* C20: in Console multi_line mode with an empty pattern list, unordered mode
\* has the verdict passed after the first handled line, whatever the line, and
\* ordered mode keeps the cursor at 0 and the verdict unset for ever.
C20_EmptyPatternList ==
    (variant = "Console" /\ type = "multi_line" /\ regex = <<>>
     /\ pc \in {"configured", "handling"})
        => /\ ordered => (next_pattern = 0 /\ state = None)
           /\ (~ordered /\ pc = "configured") => state = None
           /\ (~ordered /\ pc = "handling") => state = "passed"

\* C20 witness: unordered, empty list, passed by a line of noise
C20_Witness ==
    /\ ConsoleHandled /\ type = "multi_line" /\ ~ordered /\ regex = <<>>
    /\ line = <<"noise">> /\ prev.state = None /\ state = "passed"

====
